---- MODULE Spec2Model ----
(***************************************************************************)
(* Account-state synchronisation core of the marginfi liquidation bot:     *)
(* the snapshot store (src/src/cache/snapshot.rs), the service             *)
(* orchestrator (src/src/service.rs) and the RPC account fetcher           *)
(* (src/src/comms/rpc_comms_client.rs).                                    *)
(*                                                                         *)
(* Three specifications share the variables:                               *)
(*   SpecSnap  - persist_cache_snapshot / restore_cache_snapshot driven by *)
(*               an arbitrary caller, with I/O faults and process crashes; *)
(*   Spec      - ServiceManager::start with its three worker threads;      *)
(*   SpecFetch - get_program_accounts and the prefix partition search.     *)
(***************************************************************************)
EXTENDS Integers, Sequences, FiniteSets, TLC

VARIABLES
    snapshot_path,  \* ServiceManager.snapshot_path / the `path` argument
    fs,             \* the file system: path -> [exists, bytes]
    cache,          \* Cache: [clock, marginfi_accounts, banks]
    pc,             \* position of the calling (orchestrator) thread
    ctx,            \* call site of the snapshot operation in progress
    op,             \* the snapshot operation in progress: persist or restore
    ret,            \* Result returned by the last snapshot operation
    snapshot,       \* the CacheSnapshot local of capture / restore
    data,           \* the serialized bytes local of persist
    pre,            \* history: file at `path` when persist was called
    cache0,         \* history: Cache when the snapshot operation was called
    seen,           \* history: the Caches there were while capture ran,
                    \* kept until persist goes on to write
    file0,          \* history: file at `path` when restore was called
    persisted,      \* history: Cache captured by the last persist that returned Ok
    faulted,        \* history: a fault was injected into the operation in progress
    mutations,      \* number of Cache mutations done so far
    calls,          \* number of snapshot operations called so far
    \* the service orchestrator
    workers,        \* worker thread -> unspawned | running | panicked | dead
    panic_abort,    \* build profile: a panic aborts the process (else unwinds)
    stop,           \* the shared AtomicBool
    now,            \* Instant::now(), in seconds
    last_snapshot,  \* the local of start
    snapshot_interval_sec,
    stats_interval_sec,
    hist,           \* history of start: what it called and what came back
    \* the remote ledger, as the fetcher sees it
    groups,         \* the keys of the MarginfiGroup accounts, in the order served
    ledger,         \* the MarginfiAccount accounts
    remote,         \* how the remote decides that a scan is too large
    scan_limit,     \* the remote's scan limit (remote = "limit")
    faulty,         \* the remote may fail a query with another error
    \* RpcCommsClient::get_program_accounts
    fpc,            \* groups | banks | marginfi_accounts | done
    group_pubkeys,  \* the local of get_program_accounts
    gi,             \* get_marginfi_accounts_by_group: index of the group in the loop
    stack,          \* fetch_marginfi_accounts_for_prefix: the fan-outs in progress
    accounts,       \* the accounts collected so far
    queries,        \* history: the queries issued, in order
    responses,      \* history: the remote's answer to each query
    fret,           \* the Result of get_program_accounts
    \* RpcCommsClient::get_accounts
    addresses,      \* the argument
    records,        \* the addresses that have a record at the remote
    lfaulty,        \* the remote may fail a request
    lpc,            \* idle | chunks | done
    chunk_start,    \* index in `addresses` of the first address of the next chunk
    tuples,         \* the local of get_accounts
    requests,       \* history: the chunks requested, in order
    lret            \* the Result of get_accounts

snapVars == <<snapshot_path, fs, cache, pc, ctx, op, ret, snapshot, data,
              pre, cache0, seen, file0, persisted, faulted, mutations, calls>>

orchVars == <<workers, panic_abort, stop, now, last_snapshot,
              snapshot_interval_sec, stats_interval_sec, hist>>

lookupVars == <<addresses, records, lfaulty, lpc, chunk_start, tuples,
                requests, lret>>

fetchVars == <<groups, ledger, remote, scan_limit, faulty, fpc, group_pubkeys,
               gi, stack, accounts, queries, responses, fret, lookupVars>>

vars == <<snapVars, orchVars, fetchVars>>

-----------------------------------------------------------------------------
(* Results: Rust's Result<T, anyhow::Error>.                               *)

\* The smaller of two numbers.
Min(a, b) == IF a <= b THEN a ELSE b

OkV(v) == [ok |-> TRUE, val |-> v]
ErrV(e) == [ok |-> FALSE, val |-> e]

-----------------------------------------------------------------------------
(* Data model.                                                             *)

SNAPSHOT_VERSION == 1

\* Bounds on the Cache mutations and on the snapshot operations of one
\* behaviour of SpecSnap.
MaxMutations == 3
MaxCalls == 2

\* Clock: only its slot is modelled.
Clocks == {[slot |-> 10], [slot |-> 11]}

\* The Clock fetch_clock returned to ServiceManager::new.
FetchedClock == [slot |-> 10]

\* SnapshotAccount {address, slot, data}: a small universe of records, two of
\* them with the same address (an overwrite) and payloads of different length.
SnapshotAccount(address, slot, bytes) ==
    [address |-> address, slot |-> slot, data |-> bytes]

Records ==
    { SnapshotAccount(1, 3, <<>>),
      SnapshotAccount(1, 4, <<9>>),
      SnapshotAccount(2, 3, <<8, 9>>) }

\* SystemTime::now() as seconds since the epoch.
WallClock == {70}

\* A file: its bytes, and whether this process may read it.
NoFile == [exists |-> FALSE, bytes |-> <<>>, readable |-> FALSE]
File(bytes) == [exists |-> TRUE, bytes |-> bytes, readable |-> TRUE]
Unreadable(bytes) == [exists |-> TRUE, bytes |-> bytes, readable |-> FALSE]

\* Paths: a stem and an extension. Path::with_extension replaces the extension.
Path(stem, ext) == [stem |-> stem, ext |-> ext]
Paths == { Path("cache", "bin"), Path("cache", "tmp") }
with_extension(path, ext) == [path EXCEPT !.ext = ext]

-----------------------------------------------------------------------------
(* Cache collections: address-unique sets of records.                      *)

RECURSIVE restore_from_snapshot(_, _)
\* restore_from_snapshot(entries): the collection holding exactly the first n
\* entries, a later entry overwriting an earlier one with the same address.
restore_from_snapshot(entries, n) ==
    IF n = 0 THEN {}
    ELSE LET rest == restore_from_snapshot(entries, n - 1)
         IN  { r \in rest : r.address /= entries[n].address } \cup {entries[n]}

\* snapshot_entries(): the collection as a list, in some iteration order.
snapshot_entries(coll) ==
    { s \in [1..Cardinality(coll) -> coll] :
        \A i, j \in 1..Cardinality(coll) : i /= j => s[i] /= s[j] }

\* An insert of one record (insertion overwrites, never duplicates).
Upsert(coll, r) == { x \in coll : x.address /= r.address } \cup {r}

-----------------------------------------------------------------------------
(* bincode: the snapshot as a sequence of integers, vectors length-prefixed.*)

RECURSIVE SerAccounts(_, _)
SerAccounts(v, i) ==
    IF i > Len(v) THEN <<>>
    ELSE <<v[i].address, v[i].slot, Len(v[i].data)>> \o v[i].data
         \o SerAccounts(v, i + 1)

SerVec(v) == <<Len(v)>> \o SerAccounts(v, 1)

Serialize(s) ==
    <<s.version, s.generated_at_unix, s.clock.slot>>
    \o SerVec(s.marginfi_accounts) \o SerVec(s.banks)

ParseFail == [ok |-> FALSE, val |-> <<>>, next |-> 0]

\* n accounts starting at position i of b.
RECURSIVE ParseAccounts(_, _, _, _)
ParseAccounts(b, i, n, acc) ==
    IF n = 0 THEN [ok |-> TRUE, val |-> acc, next |-> i]
    ELSE IF i + 2 > Len(b) THEN ParseFail
    ELSE IF b[i + 2] < 0 \/ i + 2 + b[i + 2] > Len(b) THEN ParseFail
    ELSE ParseAccounts(b, i + 3 + b[i + 2], n - 1,
            Append(acc, SnapshotAccount(b[i], b[i + 1],
                                        SubSeq(b, i + 3, i + 2 + b[i + 2]))))

ParseVec(b, i) ==
    IF i > Len(b) \/ i < 1 THEN ParseFail
    ELSE IF b[i] < 0 THEN ParseFail
    ELSE ParseAccounts(b, i + 1, b[i], <<>>)

\* bincode::deserialize::<CacheSnapshot>: Err on input that ends early;
\* bytes after the last field are ignored.
Deserialize(b) ==
    IF Len(b) < 3 THEN ErrV("deserialize")
    ELSE LET ma == ParseVec(b, 4)
             bk == IF ma.ok THEN ParseVec(b, ma.next) ELSE ParseFail
         IN  IF ~ma.ok \/ ~bk.ok THEN ErrV("deserialize")
             ELSE OkV([version |-> b[1], generated_at_unix |-> b[2],
                       clock |-> [slot |-> b[3]],
                       marginfi_accounts |-> ma.val, banks |-> bk.val])

-----------------------------------------------------------------------------
(* Initial states of the snapshot store.                                   *)

\* Cache::new(clock): the clock and two empty collections.
NewCache(clock) ==
    [clock |-> clock, marginfi_accounts |-> {}, banks |-> {}]

NoSnapshot == [some |-> FALSE, cache |-> NewCache([slot |-> 0])]
EmptySnapshot ==
    [version |-> 0, generated_at_unix |-> 0, clock |-> [slot |-> 0],
     marginfi_accounts |-> <<>>, banks |-> <<>>]

\* A snapshot written by an earlier run of this version.
OldSnapshot ==
    [version |-> SNAPSHOT_VERSION, generated_at_unix |-> 60,
     clock |-> [slot |-> 9],
     marginfi_accounts |-> <<SnapshotAccount(2, 3, <<8, 9>>)>>,
     banks |-> <<SnapshotAccount(1, 3, <<>>)>>]

Truncated(bytes, n) == SubSeq(bytes, 1, n)

\* Where a write of `bytes` may stop short: before the first byte, before the
\* last byte.
CutPoints(bytes) == {0, Len(bytes) - 1} \cap (0..(Len(bytes) - 1))

\* What may lie at the snapshot path when the process starts: nothing, a
\* snapshot of this version, one of another version (well-formed, or cut
\* short after its version field), a snapshot of this version cut short,
\* an empty file, a file the process may not read.
InitialFiles ==
    { NoFile,
      File(Serialize(OldSnapshot)),
      File(Serialize([OldSnapshot EXCEPT !.version = 2])),
      File(Truncated(Serialize([OldSnapshot EXCEPT !.version = 2]), 5)),
      File(Truncated(Serialize(OldSnapshot), 7)),
      File(<<>>),
      Unreadable(Serialize(OldSnapshot)) }

Workers == {"geyser_processor", "geyser_subscriber", "liquidation_service"}

NoHistory ==
    [restore |-> "none", restore_err |-> "none",
     load_auxiliary_accounts |-> "none",
     load_cache |-> "none", load_cache_calls |-> 0,
     initial_persist |-> "none", initial_persists |-> 0]

\* The orchestrator before start is called.
OrchIdle ==
    /\ workers = [w \in Workers |-> "unspawned"]
    /\ panic_abort = FALSE
    /\ stop = FALSE
    /\ now = 0
    /\ last_snapshot = 0
    /\ snapshot_interval_sec = 1
    /\ stats_interval_sec = 1
    /\ hist = NoHistory

\* Before get_accounts is called.
LookupIdle ==
    /\ addresses = <<>>
    /\ records = {}
    /\ lfaulty = FALSE
    /\ lpc = "idle"
    /\ chunk_start = 1
    /\ tuples = <<>>
    /\ requests = <<>>
    /\ lret = OkV(<<>>)

\* The fetcher before get_program_accounts is called.
FetchIdle ==
    /\ LookupIdle
    /\ groups = <<>>
    /\ ledger = {}
    /\ remote = "limit"
    /\ scan_limit = 0
    /\ faulty = FALSE
    /\ fpc = "idle"
    /\ group_pubkeys = <<>>
    /\ gi = 0
    /\ stack = <<>>
    /\ accounts = <<>>
    /\ queries = <<>>
    /\ responses = <<>>
    /\ fret = OkV(<<>>)

InitSnap ==
    /\ OrchIdle
    /\ FetchIdle
    /\ snapshot_path \in Paths
    /\ \E f \in InitialFiles :
          fs = [p \in Paths |-> IF p = snapshot_path THEN f ELSE NoFile]
    /\ cache = NewCache(FetchedClock)
    /\ pc = "idle"
    /\ ctx = "none"
    /\ op = "none"
    /\ ret = OkV("unit")
    /\ snapshot = EmptySnapshot
    /\ data = <<>>
    /\ pre = NoFile
    /\ cache0 = NewCache([slot |-> 0])
    /\ seen = {}
    /\ file0 = NoFile
    /\ persisted = NoSnapshot
    /\ faulted = FALSE
    /\ mutations = 0
    /\ calls = 0

-----------------------------------------------------------------------------
(* persist_cache_snapshot (snapshot.rs:79-93) and CacheSnapshot::capture   *)
(* (snapshot.rs:42-53), one action per Cache call and per file operation.  *)

tmp_path == with_extension(snapshot_path, "tmp")

Return(r) == pc' = "returned" /\ ret' = r

\* fs::rename(from, to): `to` is replaced by `from` in one step.
rename(f, from, to) ==
    IF from = to THEN f ELSE [f EXCEPT ![to] = f[from], ![from] = NoFile]

CallPersist(site) ==
    /\ pc' = "capture_clock"
    /\ ctx' = site
    /\ op' = "persist"
    /\ pre' = fs[snapshot_path]
    /\ cache0' = cache
    /\ seen' = {cache}
    /\ faulted' = FALSE
    /\ persisted' = NoSnapshot
    /\ UNCHANGED <<snapshot_path, fs, cache, ret, snapshot, data, file0, mutations>>

\* capture: version, generated_at_unix, clock: cache.get_clock()?
PersistGetClock ==
    /\ pc = "capture_clock"
    /\ \E t \in WallClock :
          snapshot' = [version |-> SNAPSHOT_VERSION, generated_at_unix |-> t,
                       clock |-> cache.clock,
                       marginfi_accounts |-> <<>>, banks |-> <<>>]
    /\ pc' = "capture_marginfi_accounts"
    /\ UNCHANGED <<snapshot_path, fs, cache, ctx, op, ret, data, pre, cache0, seen, file0,
                   persisted, faulted, mutations, calls, orchVars, fetchVars>>

PersistSnapshotMarginfiAccountsTorn ==
    /\ pc = "capture_marginfi_accounts"
    /\ \E part \in SUBSET cache.marginfi_accounts :
          \E s \in snapshot_entries(part) :
             snapshot' = [snapshot EXCEPT !.marginfi_accounts = s]
    /\ pc' = "capture_banks"
    /\ UNCHANGED <<snapshot_path, fs, cache, ctx, op, ret, data, pre, cache0, seen, file0,
                   persisted, faulted, mutations, calls, orchVars, fetchVars>>

\* capture: cache.marginfi_accounts.snapshot_entries()?
PersistSnapshotMarginfiAccounts ==
    /\ pc = "capture_marginfi_accounts"
    /\ \E s \in snapshot_entries(cache.marginfi_accounts) :
          snapshot' = [snapshot EXCEPT !.marginfi_accounts = s]
    /\ pc' = "capture_banks"
    /\ UNCHANGED <<snapshot_path, fs, cache, ctx, op, ret, data, pre, cache0, seen, file0,
                   persisted, faulted, mutations, calls, orchVars, fetchVars>>

\* capture: cache.banks.snapshot_entries()?, then bincode::serialize.
PersistSnapshotBanks ==
    /\ pc = "capture_banks"
    /\ \E s \in snapshot_entries(cache.banks) :
          /\ snapshot' = [snapshot EXCEPT !.banks = s]
          /\ data' = Serialize(snapshot')
    /\ pc' = "write_create"
    /\ UNCHANGED <<snapshot_path, fs, cache, ctx, op, ret, pre, cache0, seen, file0,
                   persisted, faulted, mutations, calls, orchVars, fetchVars>>

\* A Cache call of capture returns Err: `?` returns it from persist.
PersistCaptureFails ==
    /\ pc \in {"capture_clock", "capture_marginfi_accounts", "capture_banks"}
    /\ Return(ErrV("cache"))
    /\ faulted' = TRUE
    /\ seen' = {}
    /\ UNCHANGED <<snapshot_path, fs, cache, ctx, op, snapshot, data, pre, cache0,
                   file0, persisted, mutations, calls, orchVars, fetchVars>>

\* fs::write(&tmp_path, data), first half: the file is created or truncated.
PersistCreateTmp ==
    /\ pc = "write_create"
    /\ fs' = [fs EXCEPT ![tmp_path] = File(<<>>)]
    /\ pc' = "write_data"
    /\ seen' = {}
    /\ UNCHANGED <<snapshot_path, cache, ctx, op, ret, snapshot, data, pre, cache0,
                   file0, persisted, faulted, mutations, calls, orchVars, fetchVars>>

\* fs::write, second half: write_all puts every byte.
PersistWriteTmp ==
    /\ pc = "write_data"
    /\ fs' = [fs EXCEPT ![tmp_path] = File(data)]
    /\ pc' = "rename"
    /\ UNCHANGED <<snapshot_path, cache, ctx, op, ret, snapshot, data, pre, cache0, seen,
                   file0, persisted, faulted, mutations, calls, orchVars, fetchVars>>

\* fs::write fails: at the create (nothing changed), or in write_all after
\* k bytes. `?` returns the error from persist.
PersistWriteFails ==
    /\ \/ pc = "write_create" /\ fs' = fs
       \/ /\ pc = "write_data"
          /\ \E k \in CutPoints(data) :
                fs' = [fs EXCEPT ![tmp_path] = File(Truncated(data, k))]
    /\ Return(ErrV("write"))
    /\ faulted' = TRUE
    /\ seen' = {}
    /\ UNCHANGED <<snapshot_path, cache, ctx, op, snapshot, data, pre, cache0,
                   file0, persisted, mutations, calls, orchVars, fetchVars>>

\* fs::rename(&tmp_path, path), then Ok(()).
PersistRename ==
    /\ pc = "rename"
    /\ fs' = rename(fs, tmp_path, snapshot_path)
    /\ Return(OkV("unit"))
    /\ persisted' = [some |-> TRUE, cache |-> cache0]
    /\ UNCHANGED <<snapshot_path, cache, ctx, op, snapshot, data, pre, cache0, seen,
                   file0, faulted, mutations, calls, orchVars, fetchVars>>

PersistRenameFails ==
    /\ pc = "rename"
    /\ Return(ErrV("rename"))
    /\ faulted' = TRUE
    /\ UNCHANGED <<snapshot_path, fs, cache, ctx, op, snapshot, data, pre, cache0, seen,
                   file0, persisted, mutations, calls, orchVars, fetchVars>>

Persist ==
    \/ PersistGetClock
    \/ PersistSnapshotMarginfiAccounts
    \/ PersistSnapshotBanks
    \/ PersistCaptureFails
    \/ PersistCreateTmp
    \/ PersistWriteTmp
    \/ PersistWriteFails
    \/ PersistRename
    \/ PersistRenameFails

-----------------------------------------------------------------------------
(* restore_cache_snapshot (snapshot.rs:56-77).                             *)

CallRestore(site) ==
    /\ pc' = "restore_exists"
    /\ ctx' = site
    /\ op' = "restore"
    /\ cache0' = cache
    /\ seen' = {}
    /\ file0' = fs[snapshot_path]
    /\ faulted' = FALSE
    /\ UNCHANGED <<snapshot_path, fs, cache, ret, snapshot, data, pre,
                   persisted, mutations>>

RestoreAbsentReadFails ==
    /\ pc = "restore_exists"
    /\ ~fs[snapshot_path].exists
    /\ Return(ErrV("read"))
    /\ UNCHANGED <<snapshot_path, fs, cache, ctx, op, snapshot, data, pre, cache0, seen,
                   file0, persisted, faulted, mutations, calls, orchVars, fetchVars>>

\* if !path.exists() { return Ok(false); }
RestoreAbsent ==
    /\ pc = "restore_exists"
    /\ ~fs[snapshot_path].exists
    /\ Return(OkV("false"))
    /\ UNCHANGED <<snapshot_path, fs, cache, ctx, op, snapshot, data, pre, cache0, seen,
                   file0, persisted, faulted, mutations, calls, orchVars, fetchVars>>

RestoreExists ==
    /\ pc = "restore_exists"
    /\ fs[snapshot_path].exists
    /\ pc' = "restore_read"
    /\ UNCHANGED <<snapshot_path, fs, cache, ctx, op, ret, snapshot, data, pre,
                   cache0, seen, file0, persisted, faulted, mutations, calls, orchVars, fetchVars>>

\* fs::read(path) fails: `?` returns the error.
RestoreReadFails ==
    /\ pc = "restore_read"
    /\ ~fs[snapshot_path].readable
    /\ Return(ErrV("read"))
    /\ UNCHANGED faulted
    /\ UNCHANGED <<snapshot_path, fs, cache, ctx, op, snapshot, data, pre, cache0, seen,
                   file0, persisted, mutations, calls, orchVars, fetchVars>>

\* bincode::deserialize(&bytes) fails: `?` returns the error.
RestoreDeserializeFails ==
    /\ pc = "restore_read"
    /\ fs[snapshot_path].readable
    /\ ~Deserialize(fs[snapshot_path].bytes).ok
    /\ Return(ErrV("deserialize"))
    /\ UNCHANGED <<snapshot_path, fs, cache, ctx, op, snapshot, data, pre, cache0, seen,
                   file0, persisted, faulted, mutations, calls, orchVars, fetchVars>>

\* if snapshot.version != SNAPSHOT_VERSION { return Ok(false); }
RestoreVersionMismatch ==
    /\ pc = "restore_read"
    /\ fs[snapshot_path].readable
    /\ LET d == Deserialize(fs[snapshot_path].bytes)
       IN  d.ok /\ d.val.version /= SNAPSHOT_VERSION
    /\ Return(OkV("false"))
    /\ UNCHANGED <<snapshot_path, fs, cache, ctx, op, snapshot, data, pre, cache0, seen,
                   file0, persisted, faulted, mutations, calls, orchVars, fetchVars>>

RestoreDecoded ==
    /\ pc = "restore_read"
    /\ fs[snapshot_path].readable
    /\ LET d == Deserialize(fs[snapshot_path].bytes)
       IN  /\ d.ok
           /\ d.val.version = SNAPSHOT_VERSION
           /\ snapshot' = d.val
    /\ pc' = "restore_clock"
    /\ UNCHANGED <<snapshot_path, fs, cache, ctx, op, ret, data, pre, cache0, seen,
                   file0, persisted, faulted, mutations, calls, orchVars, fetchVars>>

\* cache.update_clock(snapshot.clock)?
RestoreUpdateClock ==
    /\ pc = "restore_clock"
    /\ cache' = [cache EXCEPT !.clock = snapshot.clock]
    /\ pc' = "restore_marginfi_accounts"
    /\ UNCHANGED <<snapshot_path, fs, ctx, op, ret, snapshot, data, pre, cache0, seen,
                   file0, persisted, faulted, mutations, calls, orchVars, fetchVars>>

\* cache.marginfi_accounts.restore_from_snapshot(&snapshot.marginfi_accounts)?
RestoreMarginfiAccounts ==
    /\ pc = "restore_marginfi_accounts"
    /\ cache' = [cache EXCEPT !.marginfi_accounts =
                    restore_from_snapshot(snapshot.marginfi_accounts,
                                          Len(snapshot.marginfi_accounts))]
    /\ pc' = "restore_banks"
    /\ UNCHANGED <<snapshot_path, fs, ctx, op, ret, snapshot, data, pre, cache0, seen,
                   file0, persisted, faulted, mutations, calls, orchVars, fetchVars>>

RestoreBanksFromMarginfiAccounts ==
    /\ pc = "restore_banks"
    /\ cache' = [cache EXCEPT !.banks =
                    restore_from_snapshot(snapshot.marginfi_accounts,
                                          Len(snapshot.marginfi_accounts))]
    /\ Return(OkV("true"))
    /\ UNCHANGED <<snapshot_path, fs, ctx, op, snapshot, data, pre, cache0, seen,
                   file0, persisted, faulted, mutations, calls, orchVars, fetchVars>>

\* cache.banks.restore_from_snapshot(&snapshot.banks)?; Ok(true)
RestoreBanks ==
    /\ pc = "restore_banks"
    /\ cache' = [cache EXCEPT !.banks =
                    restore_from_snapshot(snapshot.banks, Len(snapshot.banks))]
    /\ Return(OkV("true"))
    /\ UNCHANGED <<snapshot_path, fs, ctx, op, snapshot, data, pre, cache0, seen,
                   file0, persisted, faulted, mutations, calls, orchVars, fetchVars>>

\* A Cache call of restore returns Err: `?` returns it, what was replaced
\* before it stays replaced.
RestoreCacheFails ==
    /\ pc \in {"restore_clock", "restore_marginfi_accounts", "restore_banks"}
    /\ Return(ErrV("cache"))
    /\ faulted' = TRUE
    /\ UNCHANGED <<snapshot_path, fs, cache, ctx, op, snapshot, data, pre, cache0, seen,
                   file0, persisted, mutations, calls, orchVars, fetchVars>>

Restore ==
    \/ RestoreAbsent
    \/ RestoreExists
    \/ RestoreReadFails
    \/ RestoreDeserializeFails
    \/ RestoreVersionMismatch
    \/ RestoreDecoded
    \/ RestoreUpdateClock
    \/ RestoreMarginfiAccounts
    \/ RestoreBanks
    \/ RestoreCacheFails

-----------------------------------------------------------------------------
(* The callers of SpecSnap: any sequence of persist and restore calls,     *)
(* Cache mutations between them, a crash of the process at any point and   *)
(* its restart.                                                            *)

\* The positions inside CacheSnapshot::capture.
CaptureSteps == {"capture_clock", "capture_marginfi_accounts", "capture_banks"}

PersistSteps ==
    {"capture_clock", "capture_marginfi_accounts", "capture_banks",
     "write_create", "write_data", "rename"}
RestoreSteps ==
    {"restore_exists", "restore_read", "restore_clock",
     "restore_marginfi_accounts", "restore_banks"}

\* One mutation of the Cache: a clock update or the insert of one record.
Mutated(c) ==
    { [c EXCEPT !.clock = k] : k \in Clocks }
    \cup { [c EXCEPT !.marginfi_accounts = Upsert(@, r)] : r \in Records }
    \cup { [c EXCEPT !.banks = Upsert(@, r)] : r \in Records }

CallerMutates ==
    /\ pc = "idle"
    /\ mutations < MaxMutations
    /\ cache' \in Mutated(cache) \ {cache}
    /\ mutations' = mutations + 1
    /\ UNCHANGED <<snapshot_path, fs, pc, ctx, op, ret, snapshot, data, pre, cache0, seen,
                   file0, persisted, faulted, calls, orchVars, fetchVars>>

CallerPersists ==
    /\ pc = "idle"
    /\ calls < MaxCalls
    /\ calls' = calls + 1
    /\ CallPersist("caller")
    /\ UNCHANGED <<orchVars, fetchVars>>

CallerRestores ==
    /\ pc = "idle"
    /\ calls < MaxCalls
    /\ calls' = calls + 1
    /\ CallRestore("caller")
    /\ UNCHANGED <<orchVars, fetchVars>>

\* The locals of the operation are dropped.
DropLocals ==
    /\ ctx' = "none"
    /\ op' = "none"
    /\ ret' = OkV("unit")
    /\ snapshot' = EmptySnapshot
    /\ data' = <<>>
    /\ pre' = NoFile
    /\ cache0' = NewCache([slot |-> 0])
    /\ seen' = {}
    /\ file0' = NoFile
    /\ faulted' = FALSE

CallerResumes ==
    /\ pc = "returned"
    /\ ctx = "caller"
    /\ pc' = "idle"
    /\ DropLocals
    /\ UNCHANGED <<snapshot_path, fs, cache, persisted, mutations, calls, orchVars, fetchVars>>

\* The process is killed inside a snapshot operation. Inside write_all the
\* temporary file holds whatever part of the data had been written.
Crash ==
    /\ pc \in PersistSteps \cup RestoreSteps
    /\ IF pc = "write_data"
       THEN \E k \in CutPoints(data) \cup {Len(data)} :
               fs' = [fs EXCEPT ![tmp_path] = File(Truncated(data, k))]
       ELSE fs' = fs
    /\ pc' = "crashed"
    /\ faulted' = TRUE
    /\ UNCHANGED <<snapshot_path, cache, ctx, op, ret, snapshot, data, pre, cache0, seen,
                   file0, persisted, mutations, calls, orchVars, fetchVars>>

\* The next run of the process: a new Cache, the files as the crash left them.
Restart ==
    /\ pc = "crashed"
    /\ cache' = NewCache(FetchedClock)
    /\ pc' = "idle"
    /\ DropLocals
    /\ UNCHANGED <<snapshot_path, fs, persisted, mutations, calls, orchVars, fetchVars>>

NextSnap ==
    \/ Persist
    \/ Restore
    \/ CallerMutates
    \/ CallerPersists
    \/ CallerRestores
    \/ CallerResumes
    \/ Crash
    \/ Restart

SpecSnap == InitSnap /\ [][NextSnap]_vars

-----------------------------------------------------------------------------
(* ServiceManager::start (service.rs:80-159) and its worker threads.       *)

\* Bounds on the seconds the supervising loop is followed for and on the
\* workers that fail.
MaxTime == 2
MaxFailures == 1
MaxLiveUpdates == 1

\* Every variable of the snapshot store but pc.
snapRest == <<snapshot_path, fs, cache, ctx, op, ret, snapshot, data, pre,
              cache0, seen, file0, persisted, faulted, mutations, calls>>

\* What load_cache puts into the Cache.
LoadedMarginfiAccounts == {SnapshotAccount(2, 3, <<8, 9>>)}
LoadedBanks == {SnapshotAccount(1, 4, <<9>>)}


\* The live updates the workers apply: a newer Clock, a margin account that
\* changed, a margin account that is new.
LiveUpdates(c) ==
    { [c EXCEPT !.clock = [slot |-> 11]],
      [c EXCEPT !.marginfi_accounts = Upsert(@, SnapshotAccount(2, 4, <<9>>))],
      [c EXCEPT !.marginfi_accounts = Upsert(@, SnapshotAccount(1, 3, <<>>))] }

\* What start may find at the snapshot path: nothing, a snapshot of this
\* version, one of another version, a corrupt file, an unreadable file.
StartFiles ==
    { NoFile,
      File(Serialize(OldSnapshot)),
      File(Serialize([OldSnapshot EXCEPT !.version = 2])),
      File(Truncated(Serialize(OldSnapshot), 7)),
      Unreadable(Serialize(OldSnapshot)) }

InitOrch ==
    /\ snapshot_path = Path("cache", "bin")
    /\ \E f \in StartFiles :
          fs = [p \in Paths |-> IF p = snapshot_path THEN f ELSE NoFile]
    /\ cache = NewCache(FetchedClock)
    /\ pc = "start"
    /\ ctx = "none"
    /\ op = "none"
    /\ ret = OkV("unit")
    /\ snapshot = EmptySnapshot
    /\ data = <<>>
    /\ pre = NoFile
    /\ cache0 = NewCache([slot |-> 0])
    /\ seen = {}
    /\ file0 = NoFile
    /\ persisted = NoSnapshot
    /\ faulted = FALSE
    /\ mutations = 0
    /\ calls = 0
    /\ workers = [w \in Workers |-> "unspawned"]
    /\ panic_abort \in BOOLEAN
    /\ stop = FALSE
    /\ now = 0
    /\ last_snapshot = 0
    /\ snapshot_interval_sec \in {1, 2}
    /\ stats_interval_sec = 1
    /\ hist = NoHistory
    /\ FetchIdle

StartRestoreAfterSpawn ==
    /\ pc = "start"
    /\ CallRestore("start")
    /\ workers' = [w \in Workers |-> "running"]
    /\ UNCHANGED <<calls, panic_abort, stop, now, last_snapshot,
                   snapshot_interval_sec, stats_interval_sec, hist, fetchVars>>

\* match restore_cache_snapshot(&self.cache, snapshot_path)
StartRestore ==
    /\ pc = "start"
    /\ CallRestore("start")
    /\ UNCHANGED <<calls, orchVars, fetchVars>>

\* Ok(true) => { info!; self.cache_loader.load_auxiliary_accounts()?; true }
StartRestored ==
    /\ pc = "returned" /\ ctx = "start"
    /\ ret = OkV("true")
    /\ hist' = [hist EXCEPT !.restore = "true"]
    /\ pc' = "load_auxiliary_accounts"
    /\ DropLocals
    /\ UNCHANGED <<snapshot_path, fs, cache, persisted, mutations, calls,
                   workers, panic_abort, stop, now, last_snapshot,
                   snapshot_interval_sec, stats_interval_sec, fetchVars>>

\* Ok(false) => false
StartNotRestored ==
    /\ pc = "returned" /\ ctx = "start"
    /\ ret = OkV("false")
    /\ hist' = [hist EXCEPT !.restore = "false"]
    /\ pc' = "load_cache"
    /\ DropLocals
    /\ UNCHANGED <<snapshot_path, fs, cache, persisted, mutations, calls,
                   workers, panic_abort, stop, now, last_snapshot,
                   snapshot_interval_sec, stats_interval_sec, fetchVars>>

StartRestoreErrPropagated ==
    /\ pc = "returned" /\ ctx = "start"
    /\ ~ret.ok
    /\ hist' = [hist EXCEPT !.restore = "err", !.restore_err = ret.val]
    /\ pc' = "start_err"
    /\ DropLocals
    /\ UNCHANGED <<snapshot_path, fs, cache, persisted, mutations, calls,
                   workers, panic_abort, stop, now, last_snapshot,
                   snapshot_interval_sec, stats_interval_sec, fetchVars>>
\* Err(err) => { warn!; false }
StartRestoreErr ==
    /\ pc = "returned" /\ ctx = "start"
    /\ ~ret.ok
    /\ hist' = [hist EXCEPT !.restore = "err", !.restore_err = ret.val]
    /\ pc' = "load_cache"
    /\ DropLocals
    /\ UNCHANGED <<snapshot_path, fs, cache, persisted, mutations, calls,
                   workers, panic_abort, stop, now, last_snapshot,
                   snapshot_interval_sec, stats_interval_sec, fetchVars>>

\* self.cache_loader.load_auxiliary_accounts()? returns Ok
LoadAuxiliaryAccounts ==
    /\ pc = "load_auxiliary_accounts"
    /\ hist' = [hist EXCEPT !.load_auxiliary_accounts = "ok"]
    /\ pc' = "spawn_geyser_processor"
    /\ UNCHANGED <<snapRest, workers, panic_abort, stop, now, last_snapshot,
                   snapshot_interval_sec, stats_interval_sec, fetchVars>>

\* load_auxiliary_accounts()? returns Err: start returns it.
LoadAuxiliaryAccountsFails ==
    /\ pc = "load_auxiliary_accounts"
    /\ hist' = [hist EXCEPT !.load_auxiliary_accounts = "err"]
    /\ pc' = "start_err"
    /\ UNCHANGED <<snapRest, workers, panic_abort, stop, now, last_snapshot,
                   snapshot_interval_sec, stats_interval_sec, fetchVars>>

\* if !snapshot_loaded { self.cache_loader.load_cache()?; ... } returns Ok
LoadCache ==
    /\ pc = "load_cache"
    /\ cache' = [cache EXCEPT !.marginfi_accounts = LoadedMarginfiAccounts,
                              !.banks = LoadedBanks]
    /\ hist' = [hist EXCEPT !.load_cache = "ok",
                            !.load_cache_calls = @ + 1]
    /\ pc' = "initial_persist"
    /\ UNCHANGED <<snapshot_path, fs, ctx, op, ret, snapshot, data, pre, cache0, seen,
                   file0, persisted, faulted, mutations, calls,
                   workers, panic_abort, stop, now, last_snapshot,
                   snapshot_interval_sec, stats_interval_sec, fetchVars>>

LoadCacheFailsIgnored ==
    /\ pc = "load_cache"
    /\ hist' = [hist EXCEPT !.load_cache = "err",
                            !.load_cache_calls = @ + 1]
    /\ pc' = "initial_persist"
    /\ UNCHANGED <<snapRest, workers, panic_abort, stop, now, last_snapshot,
                   snapshot_interval_sec, stats_interval_sec, fetchVars>>
\* load_cache()? returns Err: start returns it.
LoadCacheFails ==
    /\ pc = "load_cache"
    /\ hist' = [hist EXCEPT !.load_cache = "err",
                            !.load_cache_calls = @ + 1]
    /\ pc' = "start_err"
    /\ UNCHANGED <<snapRest, workers, panic_abort, stop, now, last_snapshot,
                   snapshot_interval_sec, stats_interval_sec, fetchVars>>

\* if let Err(err) = persist_cache_snapshot(&self.cache, snapshot_path)
InitialPersist ==
    /\ pc = "initial_persist"
    /\ CallPersist("initial")
    /\ hist' = [hist EXCEPT !.initial_persists = @ + 1]
    /\ UNCHANGED <<calls, workers, panic_abort, stop, now, last_snapshot,
                   snapshot_interval_sec, stats_interval_sec, fetchVars>>

InitialPersistErrPropagated ==
    /\ pc = "returned" /\ ctx = "initial"
    /\ hist' = [hist EXCEPT !.initial_persist = IF ret.ok THEN "ok" ELSE "err"]
    /\ pc' = IF ret.ok THEN "spawn_geyser_processor" ELSE "start_err"
    /\ DropLocals
    /\ UNCHANGED <<snapshot_path, fs, cache, persisted, mutations, calls,
                   workers, panic_abort, stop, now, last_snapshot,
                   snapshot_interval_sec, stats_interval_sec, fetchVars>>
\* The initial persist has returned: an Err is logged (warn!), no more.
InitialPersistDone ==
    /\ pc = "returned" /\ ctx = "initial"
    /\ hist' = [hist EXCEPT !.initial_persist = IF ret.ok THEN "ok" ELSE "err"]
    /\ pc' = "spawn_geyser_processor"
    /\ DropLocals
    /\ UNCHANGED <<snapshot_path, fs, cache, persisted, mutations, calls,
                   workers, panic_abort, stop, now, last_snapshot,
                   snapshot_interval_sec, stats_interval_sec, fetchVars>>

\* thread::spawn(move || { if let Err(e) = w.run() { error!; panic! } })
Spawn(at, w, next) ==
    /\ pc = at
    /\ workers' = [workers EXCEPT ![w] = "running"]
    /\ pc' = next
    /\ UNCHANGED <<snapRest, panic_abort, stop, now, last_snapshot,
                   snapshot_interval_sec, stats_interval_sec, hist, fetchVars>>

SpawnGeyserProcessor ==
    Spawn("spawn_geyser_processor", "geyser_processor", "spawn_geyser_subscriber")

SpawnGeyserSubscriber ==
    Spawn("spawn_geyser_subscriber", "geyser_subscriber", "spawn_liquidation_service")

SpawnLiquidationService ==
    Spawn("spawn_liquidation_service", "liquidation_service", "enter_loop")

\* let mut last_snapshot = Instant::now();
EnterMainLoop ==
    /\ pc = "enter_loop"
    /\ last_snapshot' = now
    /\ pc' = "loop_check"
    /\ UNCHANGED <<snapRest, workers, panic_abort, stop, now,
                   snapshot_interval_sec, stats_interval_sec, hist, fetchVars>>

\* while !self.stop.load(SeqCst): the flag is set; Ok(())
LoopStops ==
    /\ pc = "loop_check"
    /\ stop
    /\ pc' = "start_ok"
    /\ UNCHANGED <<snapRest, orchVars, fetchVars>>

LoopPersistAlways ==
    /\ pc = "loop_check"
    /\ ~stop
    /\ CallPersist("loop")
    /\ UNCHANGED <<calls, orchVars, fetchVars>>

\* if last_snapshot.elapsed() >= snapshot_interval { persist_cache_snapshot
LoopPersist ==
    /\ pc = "loop_check"
    /\ ~stop
    /\ now - last_snapshot >= snapshot_interval_sec
    /\ CallPersist("loop")
    /\ UNCHANGED <<calls, orchVars, fetchVars>>

LoopSkipsPersistUnchecked ==
    /\ pc = "loop_check"
    /\ ~(now - last_snapshot >= snapshot_interval_sec)
    /\ pc' = "log_stats"
    /\ UNCHANGED <<snapRest, orchVars, fetchVars>>

\* The flag is not set and the interval has not elapsed: on to log_stats.
LoopSkipsPersist ==
    /\ pc = "loop_check"
    /\ ~stop
    /\ ~(now - last_snapshot >= snapshot_interval_sec)
    /\ pc' = "log_stats"
    /\ UNCHANGED <<snapRest, orchVars, fetchVars>>

LoopPersistErrPropagated ==
    /\ pc = "returned" /\ ctx = "loop"
    /\ now' \in {now, Min(now + 1, MaxTime)}
    /\ last_snapshot' = now'
    /\ pc' = IF ret.ok THEN "log_stats" ELSE "start_err"
    /\ DropLocals
    /\ UNCHANGED <<snapshot_path, fs, cache, persisted, mutations, calls,
                   workers, panic_abort, stop,
                   snapshot_interval_sec, stats_interval_sec, hist, fetchVars>>

LoopPersistDoneKeepsLastSnapshot ==
    /\ pc = "returned" /\ ctx = "loop"
    /\ now' \in {now, Min(now + 1, MaxTime)}
    /\ last_snapshot' = last_snapshot
    /\ pc' = "log_stats"
    /\ DropLocals
    /\ UNCHANGED <<snapshot_path, fs, cache, persisted, mutations, calls,
                   workers, panic_abort, stop,
                   snapshot_interval_sec, stats_interval_sec, hist, fetchVars>>

\* The periodic persist has returned (an Err is logged):
\* last_snapshot = Instant::now(); the persist may have taken time.
LoopPersistDone ==
    /\ pc = "returned" /\ ctx = "loop"
    /\ now' \in {now, Min(now + 1, MaxTime)}
    /\ last_snapshot' = now'
    /\ pc' = "log_stats"
    /\ DropLocals
    /\ UNCHANGED <<snapshot_path, fs, cache, persisted, mutations, calls,
                   workers, panic_abort, stop,
                   snapshot_interval_sec, stats_interval_sec, hist, fetchVars>>

\* self.log_stats() returns Ok: get_clock()?, queue_depth(), info!.
LogStats ==
    /\ pc = "log_stats"
    /\ pc' = "sleep"
    /\ UNCHANGED <<snapRest, orchVars, fetchVars>>

\* if let Err(err) = self.log_stats() { eprintln! }: get_clock()? returned
\* Err; it is printed and the cycle goes on.
LogStatsFails ==
    /\ pc = "log_stats"
    /\ ret' = ErrV("stats")
    /\ pc' = "sleep"
    /\ UNCHANGED <<snapshot_path, fs, cache, ctx, op, snapshot, data, pre,
                   cache0, seen, file0, persisted, faulted, mutations, calls,
                   orchVars, fetchVars>>

\* thread::sleep(Duration::from_secs(self.stats_interval_sec)); the Result of
\* log_stats is dropped. Time stands still once it has reached MaxTime.
Sleep ==
    /\ pc = "sleep"
    /\ now' = Min(now + stats_interval_sec, MaxTime)
    /\ ret' = OkV("unit")
    /\ pc' = "loop_check"
    /\ UNCHANGED <<snapshot_path, fs, cache, ctx, op, snapshot, data, pre,
                   cache0, seen, file0, persisted, faulted, mutations, calls,
                   workers, panic_abort, stop, last_snapshot,
                   snapshot_interval_sec, stats_interval_sec, hist, fetchVars>>

ProcessRunning == pc \notin {"aborted", "start_err"}

\* A running worker changes the Cache (a live update).
WorkerMutates ==
    /\ ProcessRunning
    /\ \E w \in Workers : workers[w] = "running"
    /\ mutations < MaxLiveUpdates
    /\ cache' \in LiveUpdates(cache) \ {cache}
    /\ seen' = IF pc \in CaptureSteps THEN seen \cup {cache'} ELSE seen
    /\ mutations' = mutations + 1
    /\ UNCHANGED <<snapshot_path, fs, pc, ctx, op, ret, snapshot, data, pre,
                   cache0, file0, persisted, faulted, calls, orchVars, fetchVars>>

\* A worker's run() returns Err: error!, then panic!. The panic ends the
\* worker's thread; it ends the process only if the build aborts on panic.
WorkerFails ==
    /\ ProcessRunning
    /\ Cardinality({v \in Workers : workers[v] = "panicked"}) < MaxFailures
    /\ \E w \in Workers :
          /\ workers[w] = "running"
          /\ workers' =
               [v \in Workers |->
                  IF v = w THEN "panicked"
                  ELSE IF panic_abort /\ workers[v] = "running" THEN "dead"
                  ELSE workers[v]]
    /\ pc' = IF panic_abort THEN "aborted" ELSE pc
    /\ UNCHANGED <<snapRest, panic_abort, stop, now, last_snapshot,
                   snapshot_interval_sec, stats_interval_sec, hist, fetchVars>>

\* The cancellation flag is set from outside (a signal handler).
SetStop ==
    /\ ProcessRunning
    /\ ~stop
    /\ stop' = TRUE
    /\ UNCHANGED <<snapVars, workers, panic_abort, now, last_snapshot,
                   snapshot_interval_sec, stats_interval_sec, hist, fetchVars>>

Next ==
    \/ StartRestore
    \/ Restore
    \/ StartRestored
    \/ StartNotRestored
    \/ StartRestoreErr
    \/ LoadAuxiliaryAccounts
    \/ LoadAuxiliaryAccountsFails
    \/ LoadCache
    \/ LoadCacheFails
    \/ InitialPersist
    \/ Persist
    \/ InitialPersistDone
    \/ SpawnGeyserProcessor
    \/ SpawnGeyserSubscriber
    \/ SpawnLiquidationService
    \/ EnterMainLoop
    \/ LoopStops
    \/ LoopPersist
    \/ LoopSkipsPersist
    \/ LoopPersistDone
    \/ LogStats
    \/ LogStatsFails
    \/ Sleep
    \/ WorkerMutates
    \/ WorkerFails
    \/ SetStop

Spec == InitOrch /\ [][Next]_vars

\* The steps of the thread that runs start.
OrchestratorNext ==
    \/ StartRestore
    \/ Restore
    \/ StartRestored
    \/ StartNotRestored
    \/ StartRestoreErr
    \/ LoadAuxiliaryAccounts
    \/ LoadAuxiliaryAccountsFails
    \/ LoadCache
    \/ LoadCacheFails
    \/ InitialPersist
    \/ Persist
    \/ InitialPersistDone
    \/ SpawnGeyserProcessor
    \/ SpawnGeyserSubscriber
    \/ SpawnLiquidationService
    \/ EnterMainLoop
    \/ LoopStops
    \/ LoopPersist
    \/ LoopSkipsPersist
    \/ LoopPersistDone
    \/ LogStats
    \/ LogStatsFails
    \/ Sleep

-----------------------------------------------------------------------------
(* RpcCommsClient::get_program_accounts (rpc_comms_client.rs:46-72) and    *)
(* the partition search of fetch_marginfi_accounts_for_prefix (167-227).   *)
(* A Pubkey has PUBKEY_BYTES bytes, each in 0..U8_MAX; the program's 32    *)
(* and 255 are scaled down to keep the prefix tree small.                  *)

PUBKEY_BYTES == 2
U8_MAX == 1

\* Largest scan limit of the remote.
MaxScanLimit == 1

Bytes == 0..U8_MAX

ScanLimitError == "scan aborted: The accumulated scan results exceeded the limit"
OtherError == "connection refused"

\* An account as get_program_accounts returns it. `group` and `authority`
\* are the two Pubkeys a MarginfiAccount holds at
\* MARGINFI_ACCOUNT_GROUP_OFFSET and MARGINFI_ACCOUNT_AUTHORITY_OFFSET.
Account(kind, address, group, authority) ==
    [kind |-> kind, address |-> address, group |-> group,
     authority |-> authority]

Authority(first, last) ==
    [i \in 1..PUBKEY_BYTES |-> IF i = PUBKEY_BYTES THEN last ELSE first]

\* The margin accounts that may exist: two of one authority, a third whose
\* authority differs in its last byte only, one of another group.
MarginfiAccounts ==
    { Account("MarginfiAccount", 11, 1, Authority(0, 0)),
      Account("MarginfiAccount", 12, 1, Authority(0, 0)),
      Account("MarginfiAccount", 13, 1, Authority(0, U8_MAX)),
      Account("MarginfiAccount", 14, 2, Authority(U8_MAX, U8_MAX)) }

GroupAccount(g) == Account("MarginfiGroup", g, 0, <<>>)
BankAccounts == <<Account("Bank", 21, 0, <<>>)>>

\* A set of accounts as the list the remote serves: by ascending address.
RECURSIVE Listed(_)
Listed(set) ==
    IF set = {} THEN <<>>
    ELSE LET a == CHOOSE x \in set : \A y \in set : x.address <= y.address
         IN  <<a>> \o Listed(set \ {a})

\* A query: the account kind, and for a scoped margin-account query the
\* group key and the authority prefix (scoped = FALSE: no Memcmp on them).
Query(kind, scoped, group, prefix) ==
    [kind |-> kind, scoped |-> scoped, group |-> group, prefix |-> prefix]

HasPrefix(bytes, prefix) ==
    /\ Len(prefix) <= Len(bytes)
    /\ SubSeq(bytes, 1, Len(prefix)) = prefix

\* The accounts the filters of a query select.
Matching(q) ==
    IF q.kind = "MarginfiGroup"
    THEN [i \in 1..Len(groups) |-> GroupAccount(groups[i])]
    ELSE IF q.kind = "Bank" THEN BankAccounts
    ELSE IF ~q.scoped THEN Listed(ledger)
    ELSE Listed({ a \in ledger : a.group = q.group
                                 /\ HasPrefix(a.authority, q.prefix) })

\* The remote's own answer to a query: the scan is refused when it selects
\* more than scan_limit accounts or, for remote = "short_rejects", when the
\* authority prefix of a scoped query is shorter than a Pubkey.
Answer(q) ==
    IF remote = "short_rejects"
    THEN IF q.scoped /\ Len(q.prefix) < PUBKEY_BYTES
         THEN ErrV(ScanLimitError) ELSE OkV(Matching(q))
    ELSE IF q.kind = "MarginfiAccount" /\ Len(Matching(q)) > scan_limit
         THEN ErrV(ScanLimitError) ELSE OkV(Matching(q))

\* What get_program_accounts_with_filters may return for a query.
Responses(q) ==
    {Answer(q)} \cup (IF faulty THEN {ErrV(OtherError)} ELSE {})

is_scan_limit_error_any(err) == TRUE
\* err.to_string().contains("scan aborted: ... exceeded the limit")
is_scan_limit_error(err) == err = ScanLimitError

AtFloorOffByOne(prefix) == Len(prefix) > PUBKEY_BYTES
\* if authority_prefix.len() >= PUBKEY_BYTES { return Err(err); }
AtFloor(prefix) == Len(prefix) >= PUBKEY_BYTES

LastByteExclusive == U8_MAX - 1
\* for byte in 0u8..=u8::MAX
LastByte == U8_MAX

InitFetch ==
    /\ snapshot_path = Path("cache", "bin")
    /\ fs = [p \in Paths |-> NoFile]
    /\ cache = NewCache(FetchedClock)
    /\ pc = "idle"
    /\ ctx = "none"
    /\ op = "none"
    /\ ret = OkV("unit")
    /\ snapshot = EmptySnapshot
    /\ data = <<>>
    /\ pre = NoFile
    /\ cache0 = NewCache([slot |-> 0])
    /\ seen = {}
    /\ file0 = NoFile
    /\ persisted = NoSnapshot
    /\ faulted = FALSE
    /\ mutations = 0
    /\ calls = 0
    /\ OrchIdle
    /\ LookupIdle
    /\ groups \in {<<>>, <<1>>, <<1, 2>>}
    /\ ledger \in SUBSET MarginfiAccounts
    /\ remote \in {"limit", "short_rejects"}
    /\ scan_limit \in IF remote = "limit" THEN 0..MaxScanLimit ELSE {0}
    /\ faulty \in IF remote = "limit" THEN BOOLEAN ELSE {FALSE}
    /\ fpc = "groups"
    /\ group_pubkeys = <<>>
    /\ gi = 0
    /\ stack = <<>>
    /\ accounts = <<>>
    /\ queries = <<>>
    /\ responses = <<>>
    /\ fret = OkV(<<>>)

\* The query is issued and answered.
Issue(q, r) ==
    /\ queries' = Append(queries, q)
    /\ responses' = Append(responses, r)

\* get_program_accounts returns.
FetchReturns(r) ==
    /\ fret' = r
    /\ fpc' = "done"
    /\ stack' = <<>>

FetchGroupsKeysAfterAppend ==
    /\ fpc = "groups"
    /\ \E r \in Responses(Query("MarginfiGroup", FALSE, 0, <<>>)) :
          /\ Issue(Query("MarginfiGroup", FALSE, 0, <<>>), r)
          /\ IF r.ok
             THEN /\ group_pubkeys' = <<>>
                  /\ accounts' = accounts \o r.val
                  /\ fpc' = "banks"
                  /\ UNCHANGED <<fret, stack>>
             ELSE /\ FetchReturns(r)
                  /\ UNCHANGED <<group_pubkeys, accounts>>
    /\ UNCHANGED <<snapVars, orchVars, lookupVars, groups, ledger, remote, scan_limit,
                   faulty, gi>>

\* get_program_accounts_for_type(program_id, Group)?; the keys are collected
\* before the groups are moved into `accounts`.
FetchGroups ==
    /\ fpc = "groups"
    /\ \E r \in Responses(Query("MarginfiGroup", FALSE, 0, <<>>)) :
          /\ Issue(Query("MarginfiGroup", FALSE, 0, <<>>), r)
          /\ IF r.ok
             THEN /\ group_pubkeys' = [i \in 1..Len(r.val) |-> r.val[i].address]
                  /\ accounts' = accounts \o r.val
                  /\ fpc' = "banks"
                  /\ UNCHANGED <<fret, stack>>
             ELSE /\ FetchReturns(r)
                  /\ UNCHANGED <<group_pubkeys, accounts>>
    /\ UNCHANGED <<snapVars, orchVars, lookupVars, groups, ledger, remote, scan_limit,
                   faulty, gi>>

\* get_program_accounts_for_type(program_id, Bank)?
FetchBanks ==
    /\ fpc = "banks"
    /\ \E r \in Responses(Query("Bank", FALSE, 0, <<>>)) :
          /\ Issue(Query("Bank", FALSE, 0, <<>>), r)
          /\ IF r.ok
             THEN /\ accounts' = accounts \o r.val
                  /\ fpc' = "marginfi_accounts"
                  /\ gi' = 1
                  /\ UNCHANGED <<fret, stack>>
             ELSE /\ FetchReturns(r)
                  /\ UNCHANGED <<accounts, gi>>
    /\ UNCHANGED <<snapVars, orchVars, lookupVars, groups, ledger, remote, scan_limit,
                   faulty, group_pubkeys>>

\* get_marginfi_accounts_by_group: if group_pubkeys.is_empty() { return
\* self.get_program_accounts_for_type(program_id, MarginfiAccount); }
FetchUnscoped ==
    /\ fpc = "marginfi_accounts"
    /\ group_pubkeys = <<>>
    /\ \E r \in Responses(Query("MarginfiAccount", FALSE, 0, <<>>)) :
          /\ Issue(Query("MarginfiAccount", FALSE, 0, <<>>), r)
          /\ IF r.ok
             THEN /\ accounts' = accounts \o r.val
                  /\ FetchReturns(OkV(accounts'))
             ELSE /\ FetchReturns(r)
                  /\ UNCHANGED accounts
    /\ UNCHANGED <<snapVars, orchVars, lookupVars, groups, ledger, remote, scan_limit,
                   faulty, group_pubkeys, gi>>

\* The scoped query fetch_marginfi_accounts_for_prefix issues next: for the
\* group of the loop, with the empty prefix, or inside a fan-out with the
\* prefix of the fan-out and its next byte.
NextPrefix ==
    IF stack = <<>> THEN <<>>
    ELSE Append(stack[Len(stack)].prefix, stack[Len(stack)].byte)

NextQuery == Query("MarginfiAccount", TRUE, group_pubkeys[gi], NextPrefix)

Scoped ==
    /\ fpc = "marginfi_accounts"
    /\ group_pubkeys /= <<>>
    /\ gi <= Len(group_pubkeys)

\* A call of fetch_marginfi_accounts_for_prefix returns Ok(accs) to the
\* fan-outs in progress `st` (innermost last): the innermost appends them
\* and goes on to its next byte, or was at its last byte and returns its
\* own list to the one around it. With no fan-out in progress the call was
\* the one of get_marginfi_accounts_by_group.
RECURSIVE ReturnOk(_, _)
ReturnOk(st, accs) ==
    IF st = <<>> THEN [stack |-> <<>>, top |-> TRUE, val |-> accs]
    ELSE LET f == st[Len(st)]
             chunked == f.chunked \o accs
         IN  IF f.byte >= LastByte
             THEN ReturnOk(SubSeq(st, 1, Len(st) - 1), chunked)
             ELSE [stack |-> [st EXCEPT ![Len(st)] =
                                [f EXCEPT !.chunked = chunked,
                                          !.byte = f.byte + 1]],
                   top |-> FALSE, val |-> <<>>]

\* Ok(accounts) => Ok(accounts)
QueryOk ==
    /\ Scoped
    /\ \E r \in Responses(NextQuery) :
          /\ r.ok
          /\ Issue(NextQuery, r)
          /\ LET back == ReturnOk(stack, r.val)
             IN  IF ~back.top
                 THEN /\ stack' = back.stack
                      /\ UNCHANGED <<accounts, gi, fpc, fret>>
                 ELSE /\ accounts' = accounts \o back.val
                      /\ IF gi = Len(group_pubkeys)
                         THEN FetchReturns(OkV(accounts')) /\ gi' = gi
                         ELSE /\ gi' = gi + 1
                              /\ stack' = <<>>
                              /\ UNCHANGED <<fpc, fret>>
    /\ UNCHANGED <<snapVars, orchVars, lookupVars, groups, ledger, remote, scan_limit,
                   faulty, group_pubkeys>>

QuerySplitsFromOne ==
    /\ Scoped
    /\ \E r \in Responses(NextQuery) :
          /\ ~r.ok
          /\ is_scan_limit_error(r.val)
          /\ ~AtFloor(NextPrefix)
          /\ Issue(NextQuery, r)
          /\ stack' = Append(stack, [prefix |-> NextPrefix, byte |-> 1,
                                     chunked |-> <<>>])
    /\ UNCHANGED <<snapVars, orchVars, lookupVars, groups, ledger, remote, scan_limit,
                   faulty, fpc, group_pubkeys, gi, accounts, fret>>

\* Err(err) if Self::is_scan_limit_error(&err), below the floor: the fan-out
\* over the next byte begins.
QuerySplits ==
    /\ Scoped
    /\ \E r \in Responses(NextQuery) :
          /\ ~r.ok
          /\ is_scan_limit_error(r.val)
          /\ ~AtFloor(NextPrefix)
          /\ Issue(NextQuery, r)
          /\ stack' = Append(stack, [prefix |-> NextPrefix, byte |-> 0,
                                     chunked |-> <<>>])
    /\ UNCHANGED <<snapVars, orchVars, lookupVars, groups, ledger, remote, scan_limit,
                   faulty, fpc, group_pubkeys, gi, accounts, fret>>

\* Err(err) if Self::is_scan_limit_error(&err), at the floor: return Err(err).
\* `?` returns it from every fan-out in progress and from the caller.
QueryHitsFloor ==
    /\ Scoped
    /\ \E r \in Responses(NextQuery) :
          /\ ~r.ok
          /\ is_scan_limit_error(r.val)
          /\ AtFloor(NextPrefix)
          /\ Issue(NextQuery, r)
          /\ FetchReturns(r)
    /\ UNCHANGED <<snapVars, orchVars, lookupVars, groups, ledger, remote, scan_limit,
                   faulty, group_pubkeys, gi, accounts>>

\* Err(err) => Err(err)
QueryFails ==
    /\ Scoped
    /\ \E r \in Responses(NextQuery) :
          /\ ~r.ok
          /\ ~is_scan_limit_error(r.val)
          /\ Issue(NextQuery, r)
          /\ FetchReturns(r)
    /\ UNCHANGED <<snapVars, orchVars, lookupVars, groups, ledger, remote, scan_limit,
                   faulty, group_pubkeys, gi, accounts>>

NextFetch ==
    \/ FetchGroups
    \/ FetchBanks
    \/ FetchUnscoped
    \/ QueryOk
    \/ QuerySplits
    \/ QueryHitsFloor
    \/ QueryFails

SpecFetch == InitFetch /\ [][NextFetch]_vars

\* Every remote call returns: the fetcher is never kept from its next step.
SpecFetchFair == SpecFetch /\ WF_vars(NextFetch)

-----------------------------------------------------------------------------
(* RpcCommsClient::get_accounts (rpc_comms_client.rs:74-87). The chunk     *)
(* size, 100 in the program, is scaled down with the length of the lists.  *)

ADDRESSES_CHUNK_SIZE == 2
MaxAddresses == 5

Addresses == {1, 2, 3}

\* The lists of at most n addresses; an address may be listed twice.
RECURSIVE AddressLists(_)
AddressLists(n) ==
    IF n = 0 THEN {<<>>}
    ELSE LET shorter == AddressLists(n - 1)
         IN  shorter \cup { Append(l, a) : l \in { x \in shorter : Len(x) = n - 1 },
                                           a \in Addresses }

\* The snapshot store with no operation called.
SnapIdle ==
    /\ snapshot_path = Path("cache", "bin")
    /\ fs = [p \in Paths |-> NoFile]
    /\ cache = NewCache(FetchedClock)
    /\ pc = "idle"
    /\ ctx = "none"
    /\ op = "none"
    /\ ret = OkV("unit")
    /\ snapshot = EmptySnapshot
    /\ data = <<>>
    /\ pre = NoFile
    /\ cache0 = NewCache([slot |-> 0])
    /\ seen = {}
    /\ file0 = NoFile
    /\ persisted = NoSnapshot
    /\ faulted = FALSE
    /\ mutations = 0
    /\ calls = 0

InitLookup ==
    /\ SnapIdle
    /\ OrchIdle
    /\ groups = <<>>
    /\ ledger = {}
    /\ remote = "limit"
    /\ scan_limit = 0
    /\ faulty = FALSE
    /\ fpc = "idle"
    /\ group_pubkeys = <<>>
    /\ gi = 0
    /\ stack = <<>>
    /\ accounts = <<>>
    /\ queries = <<>>
    /\ responses = <<>>
    /\ fret = OkV(<<>>)
    /\ addresses \in AddressLists(MaxAddresses)
    /\ records \in SUBSET Addresses
    /\ lfaulty \in BOOLEAN
    /\ lpc = "chunks"
    /\ chunk_start = 1
    /\ tuples = <<>>
    /\ requests = <<>>
    /\ lret = OkV(<<>>)

\* The record the remote holds at an address.
RecordAt(a) == [owner |-> a + 100]

\* get_multiple_accounts(chunk): an Option<Account> per address, in order.
get_multiple_accounts(chunk) ==
    [i \in 1..Len(chunk) |->
        IF chunk[i] \in records THEN [some |-> TRUE, account |-> RecordAt(chunk[i])]
        ELSE [some |-> FALSE, account |-> RecordAt(0)]]

\* addresses.chunks(ADDRESSES_CHUNK_SIZE): the chunk that begins at index i.
ChunkAt(i) ==
    SubSeq(addresses, i, Min(i + ADDRESSES_CHUNK_SIZE - 1, Len(addresses)))

NextChunkSkipsOne(i) == i + ADDRESSES_CHUNK_SIZE + 1
\* The index at which the chunk after the one at i begins.
NextChunk(i) == i + ADDRESSES_CHUNK_SIZE

\* for (address, account_opt) in chunk.iter().zip(accounts.iter()) {
\*     if let Some(account) = account_opt { tuples.push(..) } }
RECURSIVE Zipped(_, _, _)
Zipped(chunk, accs, i) ==
    IF i > Len(chunk) \/ i > Len(accs) THEN <<>>
    ELSE (IF accs[i].some THEN <<<<chunk[i], accs[i].account>>>> ELSE <<>>)
         \o Zipped(chunk, accs, i + 1)

\* let accounts = self.solana_rpc_client.get_multiple_accounts(chunk)?;
\* returns Ok: the records found are pushed.
GetAccountsChunk ==
    /\ lpc = "chunks"
    /\ chunk_start <= Len(addresses)
    /\ requests' = Append(requests, ChunkAt(chunk_start))
    /\ tuples' = tuples \o Zipped(ChunkAt(chunk_start),
                                  get_multiple_accounts(ChunkAt(chunk_start)), 1)
    /\ chunk_start' = NextChunk(chunk_start)
    /\ UNCHANGED <<snapVars, orchVars, groups, ledger, remote, scan_limit,
                   faulty, fpc, group_pubkeys, gi, stack, accounts, queries,
                   responses, fret, addresses, records, lfaulty, lpc, lret>>

\* get_multiple_accounts(chunk)? returns Err: get_accounts returns it.
GetAccountsChunkFails ==
    /\ lpc = "chunks"
    /\ chunk_start <= Len(addresses)
    /\ lfaulty
    /\ requests' = Append(requests, ChunkAt(chunk_start))
    /\ lret' = ErrV(OtherError)
    /\ lpc' = "done"
    /\ UNCHANGED <<snapVars, orchVars, groups, ledger, remote, scan_limit,
                   faulty, fpc, group_pubkeys, gi, stack, accounts, queries,
                   responses, fret, addresses, records, lfaulty, chunk_start,
                   tuples>>

\* No chunk is left: Ok(tuples)
GetAccountsReturns ==
    /\ lpc = "chunks"
    /\ chunk_start > Len(addresses)
    /\ lret' = OkV(tuples)
    /\ lpc' = "done"
    /\ UNCHANGED <<snapVars, orchVars, groups, ledger, remote, scan_limit,
                   faulty, fpc, group_pubkeys, gi, stack, accounts, queries,
                   responses, fret, addresses, records, lfaulty, chunk_start,
                   tuples, requests>>

NextLookup ==
    \/ GetAccountsChunk
    \/ GetAccountsChunkFails
    \/ GetAccountsReturns

SpecLookup == InitLookup /\ [][NextLookup]_vars

-----------------------------------------------------------------------------
(* Claims about the snapshot store, checked under SpecSnap.                *)

\* C1 (atomic persist): at every point of a persist call, a crash or a
\* failed write or rename included, the file at `path` is exactly what it was
\* when persist was called or exactly the complete new snapshot.
C1_AtomicPersist ==
    op = "persist" =>
        IF pc \in {"capture_clock", "capture_marginfi_accounts", "capture_banks"}
        THEN fs[snapshot_path] = pre
        ELSE fs[snapshot_path] \in {pre, File(data)}

\* C1 holds of every path whose temporary path is another file.
C1_AtomicPersist_DistinctTmp ==
    tmp_path /= snapshot_path => C1_AtomicPersist

\* C2 (snapshot round trip): a restore that follows a persist of Cache C
\* which returned Ok, with no fault injected into the restore, returns
\* Ok(true) and leaves the Cache equal to C, whatever it held before.
C2_RoundTrip ==
    (pc = "returned" /\ op = "restore" /\ persisted.some /\ ~faulted) =>
        /\ ret = OkV("true")
        /\ cache = persisted.cache

\* C2 witness: a round trip of a Cache with entries in both collections
\* into a Cache that held something else.
C2_Witness ==
    /\ pc = "returned" /\ op = "restore" /\ persisted.some /\ ~faulted
    /\ persisted.cache.marginfi_accounts /= {}
    /\ persisted.cache.banks /= {}
    /\ cache0 /= persisted.cache
    /\ cache = persisted.cache

\* C8 (version-gated restore): restoring a file whose version field is not
\* SNAPSHOT_VERSION returns Ok(false) and leaves the Cache as it was, whether
\* or not the rest of the file is well-formed.
C8_VersionGatedRestore ==
    ( /\ pc = "returned" /\ op = "restore" /\ ~faulted
      /\ file0.exists /\ file0.readable
      /\ Len(file0.bytes) >= 1
      /\ file0.bytes[1] /= SNAPSHOT_VERSION ) =>
        /\ ret = OkV("false")
        /\ cache = cache0

-----------------------------------------------------------------------------
(* Claims about the fetcher, checked under SpecFetch and SpecFetchFair.    *)

\* The accounts of group `g` whose authority begins with `prefix`, as the
\* concatenation, in byte order, of the answers to the full-length prefixes
\* below `prefix`.
RECURSIVE LeafResults(_, _), LeafFan(_, _, _)
LeafResults(g, prefix) ==
    IF Len(prefix) >= PUBKEY_BYTES
    THEN Matching(Query("MarginfiAccount", TRUE, g, prefix))
    ELSE LeafFan(g, prefix, 0)

LeafFan(g, prefix, byte) ==
    IF byte > U8_MAX THEN <<>>
    ELSE LeafResults(g, Append(prefix, byte)) \o LeafFan(g, prefix, byte + 1)

RECURSIVE GroupLeafResults(_)
GroupLeafResults(i) ==
    IF i > Len(groups) THEN <<>>
    ELSE LeafResults(groups[i], <<>>) \o GroupLeafResults(i + 1)

\* The margin accounts of a result of get_program_accounts: what follows the
\* groups and the banks.
MarginPart(result) ==
    SubSeq(result, Len(groups) + Len(BankAccounts) + 1, Len(result))

\* C3 (partition-fallback termination): against a remote that rejects every
\* group-scoped query whose prefix is shorter than 32 bytes with the
\* scan-limit error and answers every full-length prefix, the fetch of a
\* group's margin accounts terminates with Ok, its result is the
\* concatenation of the answers to the full-length prefixes, and no query
\* carries a prefix longer than 32 bytes.
C3_PartitionFallbackTerminates ==
    /\ (remote = "short_rejects" /\ groups /= <<>>) =>
          <>( /\ fpc = "done"
              /\ fret.ok
              /\ MarginPart(fret.val) = GroupLeafResults(1) )
    /\ [](\A i \in 1..Len(queries) : Len(queries[i].prefix) <= PUBKEY_BYTES)

\* C3 witness: the fetch of two groups came back Ok with the four margin
\* accounts of the ledger, after queries of every prefix length.
C3_Witness ==
    /\ remote = "short_rejects"
    /\ Len(groups) = 2
    /\ ledger = MarginfiAccounts
    /\ fpc = "done"
    /\ fret.ok
    /\ Len(MarginPart(fret.val)) = 4
    /\ \A n \in 0..PUBKEY_BYTES :
          \E i \in 1..Len(queries) :
             /\ queries[i].scoped
             /\ Len(queries[i].prefix) = n
             /\ responses[i].ok <=> (n = PUBKEY_BYTES)

\* C4 (non-scan error short-circuits): a query answered with an error that
\* is not a scan-limit error, the first of a group or one at any depth of
\* the fan-out, is the last query issued, and the fetch returns that error
\* and none of the accounts it had collected.
C4_NonScanErrorShortCircuits ==
    \A i \in 1..Len(responses) :
       (~responses[i].ok /\ responses[i].val = OtherError) =>
           /\ i = Len(queries)
           /\ fpc = "done"
           /\ stack = <<>>
           /\ fret = ErrV(OtherError)

\* C4 witness: the error came inside a fan-out, after a query of that
\* fan-out had been answered with accounts.
C4_Witness ==
    /\ fpc = "done"
    /\ fret = ErrV(OtherError)
    /\ accounts /= <<>>
    /\ \E j \in 1..Len(queries) :
          queries[j].scoped /\ responses[j].ok /\ responses[j].val /= <<>>
    /\ queries[Len(queries)].scoped
    /\ Len(queries[Len(queries)].prefix) >= 1
    /\ responses[Len(responses)] = ErrV(OtherError)

\* C10 (declared failure floor): a scan-limit error on a group-scoped query
\* whose prefix has the full 32 bytes is the last query issued and is what
\* the fetch returns; on a shorter prefix it is never returned, and the next
\* query is the one of the same group with that prefix and the byte 0.
C10_DeclaredFailureFloor ==
    \A i \in 1..Len(responses) :
       ( /\ queries[i].kind = "MarginfiAccount" /\ queries[i].scoped
         /\ responses[i] = ErrV(ScanLimitError) ) =>
           IF Len(queries[i].prefix) >= PUBKEY_BYTES
           THEN /\ i = Len(queries)
                /\ fpc = "done"
                /\ fret = ErrV(ScanLimitError)
           ELSE IF i = Len(queries)
                THEN /\ fpc = "marginfi_accounts"
                     /\ stack /= <<>>
                     /\ NextQuery = [queries[i] EXCEPT
                                       !.prefix = Append(queries[i].prefix, 0)]
                ELSE queries[i + 1] = [queries[i] EXCEPT
                                         !.prefix = Append(queries[i].prefix, 0)]

\* C10 witness: the fetch subdivided at every shorter prefix length and
\* failed with the scan-limit error of a full-length prefix.
C10_Witness ==
    /\ fpc = "done"
    /\ fret = ErrV(ScanLimitError)
    /\ Len(queries[Len(queries)].prefix) = PUBKEY_BYTES
    /\ \A n \in 0..(PUBKEY_BYTES - 1) :
          \E i \in 1..Len(queries) :
             /\ queries[i].scoped
             /\ Len(queries[i].prefix) = n
             /\ responses[i] = ErrV(ScanLimitError)

-----------------------------------------------------------------------------
(* Claims about the orchestrator, checked under Spec.                      *)

\* C5 (worker fail-fast): once a worker's run() has returned an error, the
\* process is gone: the supervising loop takes no further step (no persist,
\* no stats cycle, no tick) and no other worker changes the Cache or fails.
C5_WorkerFailFast ==
    [][ (\E w \in Workers : workers[w] = "panicked") =>
            UNCHANGED <<snapVars, workers, now, last_snapshot, hist>> ]_vars

AllRunning == \A w \in Workers : workers[w] = "running"
NoneSpawned == \A w \in Workers : workers[w] = "unspawned"

\* C6 (populate before spawn): a worker is spawned only after restore
\* returned true and load_auxiliary_accounts returned Ok, or after
\* load_cache returned Ok; when the loader of the chosen path fails, start
\* has returned the error and no worker is spawned.
C6_PopulateBeforeSpawn ==
    /\ ~NoneSpawned =>
          \/ hist.restore = "true" /\ hist.load_auxiliary_accounts = "ok"
          \/ hist.load_cache = "ok"
    /\ (hist.load_auxiliary_accounts = "err" \/ hist.load_cache = "err") =>
          pc = "start_err" /\ NoneSpawned
    /\ pc = "start_err" => NoneSpawned

\* C6 witness: the three workers run over a restored Cache whose auxiliary
\* accounts were loaded.
C6_Witness ==
    /\ AllRunning
    /\ hist.restore = "true"
    /\ hist.load_auxiliary_accounts = "ok"
    /\ hist.load_cache = "none"

\* C7 (orchestrator fallback): after a restore that returned false,
\* load_cache is called exactly once and, when it returns Ok, the initial
\* persist exactly once; whether that persist returns Ok or Err, start goes
\* on to spawn the workers; after a restore that returned true, neither is
\* called.
C7_OrchestratorFallback ==
    /\ hist.load_cache_calls <= 1
    /\ hist.initial_persists <= 1
    /\ hist.restore = "false" =>
          \/ pc = "load_cache" /\ hist.load_cache_calls = 0
          \/ hist.load_cache_calls = 1
    /\ (hist.restore = "false" /\ hist.load_cache = "ok") =>
          \/ pc = "initial_persist" /\ hist.initial_persists = 0
          \/ hist.initial_persists = 1
    /\ (hist.restore = "false" /\ hist.initial_persists = 1) =>
          \/ hist.initial_persist = "none" /\ op = "persist" /\ ctx = "initial"
          \/ /\ hist.initial_persist \in {"ok", "err"}
             /\ pc /= "start_err"
             /\ pc = "spawn_geyser_processor" \/ ~NoneSpawned
    /\ hist.restore = "true" =>
          /\ hist.load_cache_calls = 0
          /\ hist.load_cache = "none"
          /\ hist.initial_persists = 0
          /\ hist.initial_persist = "none"

\* C7 witness: restore returned false, the initial persist failed, and the
\* workers run under the supervising loop.
C7_Witness ==
    /\ hist.restore = "false"
    /\ hist.load_cache_calls = 1
    /\ hist.initial_persists = 1
    /\ hist.initial_persist = "err"
    /\ AllRunning
    /\ pc = "loop_check"

\* A file that is there and cannot be read, or cannot be deserialized.
Corrupt(f) == f.exists /\ (~f.readable \/ ~Deserialize(f.bytes).ok)

\* C9 (corruption is absence), as claimed: the restore of a file that is
\* corrupt or cannot be read returns false, not an error, leaves the Cache
\* as it was, and start goes on to load_cache.
C9_CorruptionIsAbsence ==
    /\ (pc = "returned" /\ ctx = "start" /\ Corrupt(file0)) =>
          ret = OkV("false") /\ cache = cache0
    /\ hist.restore_err \in {"read", "deserialize"} =>
          pc = "load_cache" \/ hist.load_cache /= "none"

\* C9, amended: the restore of a file that is corrupt or cannot be read does
\* not return true (it returns false or an error), leaves the Cache as it
\* was, and start goes on to load_cache: it returns an error only if
\* load_cache does.
C9_CorruptionFallsBack ==
    /\ (pc = "returned" /\ ctx = "start" /\ Corrupt(file0)) =>
          ret /= OkV("true") /\ cache = cache0
    /\ hist.restore_err \in {"read", "deserialize"} =>
          pc = "load_cache" \/ hist.load_cache /= "none"
    /\ (pc = "start_err" /\ hist.restore = "err") => hist.load_cache = "err"

\* C9 witness: the restore of a corrupt file returned an error, and the
\* workers run over the Cache load_cache filled.
C9_Witness ==
    /\ hist.restore_err = "deserialize"
    /\ hist.load_cache = "ok"
    /\ cache.marginfi_accounts = LoadedMarginfiAccounts
    /\ AllRunning
    /\ mutations = 0

\* The orchestrator is inside the supervising loop.
InLoop ==
    \/ pc \in {"loop_check", "log_stats", "sleep"}
    \/ ctx = "loop" /\ pc \in PersistSteps \cup {"returned"}

\* C11 (loop failure isolation): from inside the supervising loop the
\* orchestrator leaves only at the loop condition with the flag set, and
\* then start returns Ok; a periodic persist that returned Err and a
\* log_stats that returned Err are followed by the rest of the cycle. (The
\* process ending on a worker's panic is not a step of the loop.)
C11_LoopFailureIsolation ==
    [][ /\ InLoop =>
             \/ InLoop'
             \/ pc' = "aborted"
             \/ pc = "loop_check" /\ stop /\ pc' = "start_ok"
        /\ (pc = "returned" /\ ctx = "loop" /\ ~ret.ok /\ pc' /= pc) =>
             pc' \in {"log_stats", "aborted"}
        /\ (pc = "sleep" /\ ret = ErrV("stats") /\ pc' /= pc) =>
             pc' \in {"loop_check", "aborted"}
        /\ pc' = "start_err" => ~InLoop ]_vars

\* C11 witness: in a cycle after the first, the periodic persist failed
\* inside its write (the start had restored, so no other persist ran), then
\* log_stats failed, and the loop is about to sleep.
C11_Witness ==
    /\ pc = "sleep"
    /\ ret = ErrV("stats")
    /\ hist.restore = "true"
    /\ fs[tmp_path].exists
    /\ ~stop
    /\ now >= 1
    /\ last_snapshot = now

\* The steps the orchestrator has left before start returns, once the flag
\* is set: the rest of the cycle in progress, then the loop condition.
StepsToReturn ==
    CASE pc = "start_ok" -> 0
      [] pc = "loop_check" -> 1
      [] pc = "sleep" -> 2
      [] pc = "log_stats" -> 3
      [] pc = "returned" -> 4
      [] pc = "rename" -> 5
      [] pc = "write_data" -> 6
      [] pc = "write_create" -> 7
      [] pc = "capture_banks" -> 8
      [] pc = "capture_marginfi_accounts" -> 9
      [] pc = "capture_clock" -> 10
      [] OTHER -> 11

\* C12 (cooperative stop): with the flag set while the orchestrator is in
\* its loop, the orchestrator always has a next step and each of its steps
\* brings the return of start nearer (it finishes the cycle in progress and
\* begins no other), unless a worker's panic ends the process first; the
\* flag is acted on only at the loop condition; start returns Ok without
\* waiting for the workers, whose state it leaves as it is.
C12_CooperativeStop ==
    /\ []((stop /\ InLoop) => ENABLED OrchestratorNext)
    /\ [][ /\ (stop /\ InLoop) =>
                \/ pc' = pc
                \/ pc' = "aborted"
                \/ StepsToReturn' < StepsToReturn
           /\ (stop /\ pc = "loop_check") =>
                pc' \in {"loop_check", "start_ok", "aborted"}
           /\ (pc' = "start_ok" /\ pc /= "start_ok") =>
                pc = "loop_check" /\ stop /\ workers' = workers
           /\ pc = "start_ok" => pc' \in {"start_ok", "aborted"} ]_vars

\* C12 witness: the flag was set inside a cycle, after a periodic persist;
\* start has returned Ok and the three workers are still running.
C12_Witness ==
    /\ pc = "start_ok"
    /\ stop
    /\ AllRunning
    /\ now >= 1
    /\ last_snapshot = now

\* The loop decides, at the top of a cycle, whether to persist.
Deciding == pc = "loop_check" /\ ~stop /\ pc' \notin {pc, "aborted"}

\* The step begins a periodic persist.
BeginsLoopPersist ==
    ctx' = "loop" /\ op' = "persist" /\ pc' \in PersistSteps /\ pc \notin PersistSteps

\* The periodic persist, or the entry into the loop, is left by the
\* orchestrator.
Stamps ==
    /\ pc = "enter_loop" \/ (pc = "returned" /\ ctx = "loop")
    /\ pc' \notin {pc, "aborted"}

\* C17 (periodic snapshot schedule), as claimed: a cycle attempts a persist
\* iff the time since the last snapshot exceeds the snapshot interval.
C17_PersistIffIntervalExceeded ==
    [][ Deciding =>
          (BeginsLoopPersist <=> now - last_snapshot > snapshot_interval_sec) ]_vars

\* C17, amended: a cycle attempts a persist iff the time since the last
\* snapshot is at least the snapshot interval, and goes on to log_stats
\* otherwise; the last snapshot is the instant the loop was entered or the
\* latest periodic persist returned, whatever it returned; a periodic persist
\* begins only at the top of a cycle and the cycle goes on to log_stats after
\* it, whatever the persist returned; neither the persist nor its return
\* touches the Cache, the workers or the cancellation flag.
C17_PeriodicSnapshotSchedule ==
    [][ /\ Deciding =>
             /\ BeginsLoopPersist <=> now - last_snapshot >= snapshot_interval_sec
             /\ ~BeginsLoopPersist => pc' = "log_stats"
        /\ BeginsLoopPersist => pc = "loop_check" /\ ~stop
        /\ Stamps => last_snapshot' = now'
        /\ last_snapshot' /= last_snapshot => Stamps
        /\ (pc = "returned" /\ ctx = "loop" /\ pc' \notin {pc, "aborted"}) =>
             /\ pc' = "log_stats"
             /\ cache' = cache /\ fs' = fs /\ workers' = workers /\ stop' = stop
        /\ (ctx = "loop" /\ pc \in PersistSteps /\ pc' /= pc /\ pc' /= "aborted") =>
             cache' = cache /\ workers' = workers /\ stop' = stop ]_vars

\* C17 witness: a periodic persist failed at time 1, the interval being 1;
\* a cycle later, at time 2, the interval has passed again.
C17_Witness ==
    /\ pc = "loop_check"
    /\ ~stop
    /\ snapshot_interval_sec = 1
    /\ last_snapshot = 1
    /\ now = 2
    /\ persisted = NoSnapshot

-----------------------------------------------------------------------------
(* More claims about the snapshot store, checked under SpecSnap.           *)

\* C14 (absent-file restore): a restore called with no file at the path
\* returns Ok(false), and no step of it changes the Cache or a file.
C14_AbsentFileRestore ==
    /\ []( (pc = "returned" /\ op = "restore" /\ ~file0.exists) =>
              ret = OkV("false") /\ cache = cache0 )
    /\ [][ (op = "restore" /\ pc \in RestoreSteps /\ ~file0.exists) =>
              fs' = fs /\ cache' = cache ]_vars

\* C14 witness: the restore returned Ok(false) to a caller whose Cache holds
\* entries, with no file at the path and none at the temporary path.
C14_Witness ==
    /\ pc = "returned" /\ op = "restore"
    /\ ~file0.exists
    /\ ret = OkV("false")
    /\ cache.marginfi_accounts /= {}
    /\ \A p \in Paths : ~fs[p].exists

-----------------------------------------------------------------------------
(* More claims about the fetcher, checked under SpecFetch.                 *)

\* The scoped queries with the empty prefix, in the order they were issued.
TopLevel == SelectSeq(queries, LAMBDA q : q.scoped /\ q.prefix = <<>>)

\* C13 (bootstrap fetch ordering): the first query is the group fetch, the
\* second the bank fetch, every later one a margin-account query; a failed
\* group or bank fetch is the last query; scoped queries name fetched
\* groups, their empty-prefix queries are one per group in group order;
\* with no group fetched there is one unscoped margin-account query and no
\* scoped one, and with groups fetched no unscoped one.
C13_BootstrapFetchOrdering ==
    /\ \A i \in 1..Len(queries) :
          /\ queries[i].kind = "MarginfiGroup" <=> i = 1
          /\ queries[i].kind = "Bank" <=> i = 2
          /\ (i <= 2 /\ ~responses[i].ok) =>
                Len(queries) = i /\ fpc = "done" /\ fret = responses[i]
          /\ queries[i].scoped =>
                /\ queries[i].kind = "MarginfiAccount"
                /\ \E g \in 1..Len(groups) : queries[i].group = groups[g]
          /\ (queries[i].kind = "MarginfiAccount" /\ ~queries[i].scoped) =>
                groups = <<>> /\ i = 3 /\ Len(queries) = 3 /\ fpc = "done"
    /\ Len(TopLevel) <= Len(groups)
    /\ \A g \in 1..Len(TopLevel) : TopLevel[g].group = groups[g]
    /\ (fpc = "done" /\ fret.ok) =>
          /\ Len(TopLevel) = Len(groups)
          /\ groups = <<>> => Len(queries) = 3

\* C13 witness: two groups were fetched and both needed a fan-out; the
\* fetch came back Ok.
C13_Witness ==
    /\ fpc = "done"
    /\ fret.ok
    /\ Len(groups) = 2
    /\ Len(TopLevel) = 2
    /\ \A g \in 1..2 :
          \E i \in 1..Len(queries) :
             /\ queries[i].scoped
             /\ queries[i].group = groups[g]
             /\ Len(queries[i].prefix) = PUBKEY_BYTES

\* The margin accounts of the fetched groups.
OfFetchedGroups ==
    { a \in ledger : \E g \in 1..Len(groups) : a.group = groups[g] }

\* No more than scan_limit accounts of a fetched group share an authority.
WithinLimit ==
    \A a \in OfFetchedGroups :
       Cardinality({ b \in ledger : b.group = a.group
                                    /\ b.authority = a.authority }) <= scan_limit

\* `seq` lists every element of `set` once and nothing else.
ListsOnce(seq, set) ==
    /\ Len(seq) = Cardinality(set)
    /\ { seq[i] : i \in 1..Len(seq) } = set

\* The remote refuses a scan iff it selects more than scan_limit accounts,
\* and fails in no other way.
LimitOnly == remote = "limit" /\ ~faulty

\* C16 (partition search completeness), as claimed: against such a remote,
\* for any ledger within the limit at full authority, the fetch returns Ok
\* with exactly the margin accounts of the fetched groups, each once; and
\* the scan-limit error is returned only from a full-length prefix.
C16_PartitionSearchComplete ==
    /\ (LimitOnly /\ WithinLimit /\ fpc = "done") =>
          /\ fret.ok
          /\ ListsOnce(MarginPart(fret.val), OfFetchedGroups)
    /\ (LimitOnly /\ fpc = "done" /\ fret = ErrV(ScanLimitError)) =>
          Len(queries[Len(queries)].prefix) >= PUBKEY_BYTES

\* C16, amended: the same, once at least one group was fetched; the fetch
\* also terminates.
C16_PartitionSearchCompleteOfGroups ==
    /\ <>(fpc = "done")
    /\ []( (LimitOnly /\ groups /= <<>> /\ WithinLimit /\ fpc = "done") =>
              /\ fret.ok
              /\ ListsOnce(MarginPart(fret.val), OfFetchedGroups) )
    /\ []( (LimitOnly /\ groups /= <<>> /\ fpc = "done"
            /\ fret = ErrV(ScanLimitError)) =>
              /\ queries[Len(queries)].scoped
              /\ Len(queries[Len(queries)].prefix) >= PUBKEY_BYTES
              /\ ~WithinLimit )

\* C16 witness: with scan_limit 1, two accounts of the first group that
\* differ in the last byte of the authority were told apart at full length;
\* the three accounts of the two groups came back once each.
C16_Witness ==
    /\ LimitOnly
    /\ scan_limit = 1
    /\ Len(groups) = 2
    /\ Cardinality(ledger) = 3
    /\ WithinLimit
    /\ fpc = "done"
    /\ fret.ok
    /\ ListsOnce(MarginPart(fret.val), ledger)
    /\ \E i \in 1..Len(queries) :
          Len(queries[i].prefix) = PUBKEY_BYTES /\ responses[i].ok

-----------------------------------------------------------------------------
(* Claims about get_accounts, checked under SpecLookup.                    *)

\* The (address, record) pairs of the addresses from index i on that have a
\* record, in the order of the list.
RECURSIVE Found(_)
Found(i) ==
    IF i > Len(addresses) THEN <<>>
    ELSE (IF addresses[i] \in records
          THEN <<<<addresses[i], RecordAt(addresses[i])>>>> ELSE <<>>)
         \o Found(i + 1)

\* C15 (batched address lookup): the k-th request carries the k-th run of at
\* most ADDRESSES_CHUNK_SIZE consecutive addresses; a call that returns Ok
\* has requested every address and returns the pairs of the addresses that
\* have a record, in input order, the others left out; a failed request is
\* the last one and the call returns its error, not the pairs found so far.
C15_BatchedAddressLookup ==
    /\ \A k \in 1..Len(requests) :
          /\ requests[k] =
               SubSeq(addresses, (k - 1) * ADDRESSES_CHUNK_SIZE + 1,
                      Min(k * ADDRESSES_CHUNK_SIZE, Len(addresses)))
          /\ Len(requests[k]) \in 1..ADDRESSES_CHUNK_SIZE
    /\ (lpc = "done" /\ lret.ok) =>
          /\ Len(requests) * ADDRESSES_CHUNK_SIZE >= Len(addresses)
          /\ lret.val = Found(1)
    /\ (lpc = "done" /\ ~lret.ok) =>
          /\ lfaulty
          /\ lret = ErrV(OtherError)
          /\ requests /= <<>>

\* C15 witness: three addresses went out as a full chunk and a short one;
\* one of them has no record and is left out of the Ok result.
C15_Witness ==
    /\ lpc = "done"
    /\ lret.ok
    /\ Len(addresses) = ADDRESSES_CHUNK_SIZE + 1
    /\ Len(requests) = 2
    /\ Len(requests[2]) = 1
    /\ Len(lret.val) = Len(addresses) - 1

\* The Cache holds what the snapshot restore decoded.
Replaced ==
    /\ cache.clock = snapshot.clock
    /\ ListsOnce(snapshot.marginfi_accounts, cache.marginfi_accounts)
    /\ ListsOnce(snapshot.banks, cache.banks)

\* C19 (restore is all-or-nothing): when restore_cache_snapshot has
\* returned, the clock and both collections of the Cache are the snapshot's
\* if it returned Ok(true), and are what they were at the call if it returned
\* Ok(false) or Err.
C19_RestoreAllOrNothing ==
    (pc = "returned" /\ op = "restore") =>
       IF ret = OkV("true") THEN Replaced ELSE cache = cache0

-----------------------------------------------------------------------------
(* Claims about capture while the workers run, checked under Spec.         *)

\* capture has read the clock / the margin accounts / the banks.
ClockCaptured ==
    /\ op = "persist"
    /\ pc \in {"capture_marginfi_accounts", "capture_banks", "write_create"}
MarginfiAccountsCaptured ==
    ClockCaptured /\ pc /= "capture_marginfi_accounts"
BanksCaptured == MarginfiAccountsCaptured /\ pc /= "capture_banks"

\* C18 (capture consistency under concurrent mutation): the clock and each
\* collection of the captured snapshot is the clock, or lists once each
\* record of the collection, of a Cache there was between the call of
\* capture and its return: the Cache at the call or one that a worker's
\* mutation left while capture ran, never an older one nor a part of one.
C18_CaptureConsistency ==
    /\ ClockCaptured => \E c \in seen : snapshot.clock = c.clock
    /\ MarginfiAccountsCaptured =>
          \E c \in seen : ListsOnce(snapshot.marginfi_accounts, c.marginfi_accounts)
    /\ BanksCaptured =>
          \E c \in seen : ListsOnce(snapshot.banks, c.banks)
    /\ (op = "persist" /\ pc \in CaptureSteps) => cache0 \in seen /\ cache \in seen

\* C18 witness: a worker added a margin account after capture had read the
\* clock and before it read the margin accounts; capture has returned with
\* the clock of the call and both margin accounts.
C18_Witness ==
    /\ op = "persist"
    /\ pc = "write_create"
    /\ ctx = "loop"
    /\ Cardinality(seen) = 2
    /\ snapshot.clock = cache0.clock
    /\ Cardinality(cache0.marginfi_accounts) = 1
    /\ Len(snapshot.marginfi_accounts) = 2

-----------------------------------------------------------------------------
(* Claims about restore and the workers, checked under Spec.               *)

\* The step calls a snapshot operation.
Calls(o) == op' = o /\ op /= o

\* C20 (restore never races with live updates): restore is called only at
\* the beginning of start, which is not come back to, so at most once, and
\* with no worker spawned; none is spawned until it has returned, and the
\* Cache changes during it by its own steps only; once a worker is spawned
\* the snapshot operation in progress, if any, is a persist; a snapshot
\* operation is called only when none is in progress, and only steps of the
\* orchestrator call one or move one on.
C20_RestoreNeverRaces ==
    /\ [](op = "restore" => NoneSpawned)
    /\ [](~NoneSpawned => op \in {"none", "persist"})
    /\ [][ /\ Calls("restore") => pc = "start" /\ op = "none" /\ NoneSpawned
           /\ pc' = "start" => pc = "start"
           /\ (op = "restore" /\ cache' /= cache) =>
                 pc \in RestoreSteps /\ pc' \notin {pc, "aborted"}
           /\ Calls("persist") => op = "none" /\ pc \in {"initial_persist", "loop_check"}
           /\ (op' /= op \/ (op /= "none" /\ snapshot' /= snapshot)) =>
                 pc' \notin {pc, "aborted"} ]_vars

\* C20 witness: the snapshot was restored before the workers were spawned;
\* all three run, one has changed the Cache, and the loop's second persist
\* is under way.
C20_Witness ==
    /\ hist.restore = "true"
    /\ AllRunning
    /\ mutations >= 1
    /\ op = "persist" /\ ctx = "loop" /\ pc = "rename"
    /\ last_snapshot >= 1

-----------------------------------------------------------------------------
(* Claims about the Clock during startup, checked under Spec.              *)

\* C21 (clock non-regression across startup): until the first worker is
\* spawned no step of start lowers the slot of the Cache's Clock; when
\* restore has returned Ok(true) the slot is not below the one the Cache was
\* constructed with, the Clock fetched by ServiceManager::new.
C21_ClockNonRegression ==
    /\ []( (pc = "returned" /\ op = "restore" /\ ret = OkV("true")) =>
              cache.clock.slot >= FetchedClock.slot )
    /\ [][ NoneSpawned => cache'.clock.slot >= cache.clock.slot ]_vars

=============================================================================
